---- MODULE Spec2Model ----
(***************************************************************************)
(* SDF COM bridge: the terminal-session bridge (COMBridge) with its three  *)
(* duties (read loop, command loop, dispatch loop), the screen parser      *)
(* (COMScreenParser), the client's start_com guard (SDFComClient) and the  *)
(* bot's start-up (FeishuCOMBot.start).                                    *)
(*                                                                         *)
(* asyncio runs the duties cooperatively on one thread: a duty is atomic   *)
(* between two awaits that really suspend.  Every action below is one such *)
(* atomic stretch.  Queue.put on an unbounded asyncio.Queue never          *)
(* suspends, so say/goto/send_raw/stop are single atomic actions.          *)
(*                                                                         *)
(* Text is modelled as sequences of one-character strings.                 *)
(***************************************************************************)
EXTENDS Integers, Sequences, FiniteSets, TLC

(***************************************************************************)
(* Bounds of the model                                                     *)
(***************************************************************************)
\* rows of the terminal grid (pyte.Screen(80, 24) in the source)
ScreenRows == 2
\* chunks the read loop may receive in one behaviour
MaxFeeds == 2
\* outbound commands the callers may submit in one behaviour
MaxCmds == 2
\* calls of stop() in one behaviour
MaxStops == 2
\* calls of run() in one behaviour
MaxRuns == 2
\* faults of the environment (failed writes on an open process, failed
\* reads, handlers that raise, close() calls that raise)
MaxFaults == 1
\* size the dedup set may reach before it is cleared (1000 in the source)
DedupCapacity == 1
\* texts of the platform that put a command on the queue in one behaviour
MaxTexts == 1

(***************************************************************************)
(* Characters and text helpers                                             *)
(***************************************************************************)
\* \w of the regular expressions, restricted to the letters the model uses
WordChars ==
    {"a", "b", "h", "x", "r", "y", "o", "u", "e", "i", "n", "F", "m",
     "D", "U", "M", "P", "s", "p", "d", "l", "k", "g", "C", "O", "L", "b",
     "w", "q", "t", "I"}

\* \s of the regular expressions and of str.strip()
SpaceChars == {" "}

IsPrefixAt(lit, s, i) ==
    /\ i >= 1
    /\ i + Len(lit) - 1 <= Len(s)
    /\ \A k \in 1..Len(lit) : s[i + k - 1] = lit[k]

\* index of the last character of the longest run of characters of cls
\* that starts at i (i - 1 when the run is empty): a greedy cls*
RECURSIVE RunEnd(_, _, _)
RunEnd(s, i, cls) ==
    IF i <= Len(s) /\ s[i] \in cls THEN RunEnd(s, i + 1, cls) ELSE i - 1

RECURSIVE LStrip(_)
LStrip(s) ==
    IF s # <<>> /\ Head(s) \in SpaceChars THEN LStrip(Tail(s)) ELSE s

RECURSIVE RStrip(_)
RStrip(s) ==
    IF s # <<>> /\ s[Len(s)] \in SpaceChars
    THEN RStrip(SubSeq(s, 1, Len(s) - 1))
    ELSE s

\* str.strip()
Strip(s) == LStrip(RStrip(s))

(***************************************************************************)
(* COMScreenParser.patterns: each regular expression as a matcher that     *)
(* returns [ok |-> FALSE] or the groups of the match.  re.match anchors at *)
(* the start of the line, re.search tries every start from the left.       *)
(***************************************************************************)
NoMatch == [ok |-> FALSE]

\* the tail "\s+(.+)" of the chat and emote patterns, tried at index i:
\* \s+ is greedy and gives one character back when it has eaten the
\* whole rest of the line.  The result is the start of the (.+) group,
\* or 0 when the tail does not match.
SpacesThenRest(s, i) ==
    LET m == RunEnd(s, i, SpaceChars)
    IN  IF m < i THEN 0
        ELSE IF m < Len(s) THEN m + 1
        ELSE IF m > i THEN m
        ELSE 0

\* 'room_header': re.compile(r"\[you are in '(\w+)'"), used with search
RoomHeaderLit == <<"[", "y", "o", "u", " ", "a", "r", "e", " ", "i", "n", " ", "'">>

RoomHeaderAt(s, i) ==
    LET w == i + Len(RoomHeaderLit)
        e == RunEnd(s, w, WordChars)
    IN  IF /\ IsPrefixAt(RoomHeaderLit, s, i)
           /\ e >= w
           /\ e + 1 <= Len(s)
           /\ s[e + 1] = "'"
        THEN [ok |-> TRUE, g1 |-> SubSeq(s, w, e)]
        ELSE NoMatch

room_header(s) ==
    LET starts == {i \in 1..Len(s) : RoomHeaderAt(s, i).ok}
    IN  IF starts = {} THEN NoMatch
        ELSE RoomHeaderAt(s, CHOOSE i \in starts : \A j \in starts : i <= j)

\* the "(\w+)@(\w+)" part shared by three patterns, tried at index i:
\* [ok, user, host, next] where next is the index after the host
UserAtHost(s, i) ==
    LET j == RunEnd(s, i, WordChars)
        k == RunEnd(s, j + 2, WordChars)
    IN  IF /\ j >= i
           /\ j + 1 <= Len(s)
           /\ s[j + 1] = "@"
           /\ k >= j + 2
        THEN [ok |-> TRUE, user |-> SubSeq(s, i, j),
              host |-> SubSeq(s, j + 2, k), next |-> k + 1]
        ELSE NoMatch

\* 'chat': re.compile(r'\[(\w+)@(\w+)\]\s+(.+)'), used with match
chat(s) ==
    IF ~IsPrefixAt(<<"[">>, s, 1) THEN NoMatch
    ELSE LET uh == UserAtHost(s, 2)
         IN  IF ~uh.ok THEN NoMatch
             ELSE IF ~IsPrefixAt(<<"]">>, s, uh.next) THEN NoMatch
             ELSE LET r == SpacesThenRest(s, uh.next + 1)
                  IN  IF r = 0 THEN NoMatch
                      ELSE [ok |-> TRUE, g1 |-> uh.user, g2 |-> uh.host,
                            g3 |-> SubSeq(s, r, Len(s))]

\* the verbs of the emote pattern: (DUMPs|appears|disappears|\.+)
EmoteVerbs ==
    { <<"D", "U", "M", "P", "s">>,
      <<"a", "p", "p", "e", "a", "r", "s">>,
      <<"d", "i", "s", "a", "p", "p", "e", "a", "r", "s">> }

\* index of the last character of the verb that starts at i, 0 if none;
\* the alternatives start with different characters, \.+ is greedy and
\* must be followed by a space, so at most one end can lead to a match
EmoteVerbEnd(s, i) ==
    LET lits == {v \in EmoteVerbs : IsPrefixAt(v, s, i)}
        dots == RunEnd(s, i, {"."})
    IN  IF lits # {} THEN i + Len(CHOOSE v \in lits : TRUE) - 1
        ELSE IF dots >= i THEN dots
        ELSE 0

\* 'emote': re.compile(r'(\w+)@(\w+)\s+(DUMPs|appears|disappears|\.+)\s+(.+)')
emote(s) ==
    LET uh == UserAtHost(s, 1)
    IN  IF ~uh.ok THEN NoMatch
        ELSE LET sp == RunEnd(s, uh.next, SpaceChars)
                 ve == EmoteVerbEnd(s, sp + 1)
             IN  IF sp < uh.next \/ ve = 0 THEN NoMatch
                 ELSE LET r == SpacesThenRest(s, ve + 1)
                      IN  IF r = 0 THEN NoMatch
                          ELSE [ok |-> TRUE, g1 |-> uh.user, g2 |-> uh.host,
                                g3 |-> SubSeq(s, sp + 1, ve),
                                g4 |-> SubSeq(s, r, Len(s))]

\* 'private': re.compile(r'From\s+(\w+)@(\w+):\s*(.+)'), used with match
private(s) ==
    LET sp == RunEnd(s, 5, SpaceChars)
        uh == UserAtHost(s, sp + 1)
    IN  IF ~IsPrefixAt(<<"F", "r", "o", "m">>, s, 1) \/ sp < 5 THEN NoMatch
        ELSE IF ~uh.ok THEN NoMatch
        ELSE IF ~IsPrefixAt(<<":">>, s, uh.next) THEN NoMatch
        ELSE LET m == RunEnd(s, uh.next + 1, SpaceChars)
                 \* \s* is greedy and gives one character back at the end
                 r == IF m < Len(s) THEN m + 1
                      ELSE IF m > uh.next THEN m ELSE 0
             IN  IF r = 0 THEN NoMatch
                 ELSE [ok |-> TRUE, g1 |-> uh.user, g2 |-> uh.host,
                       g3 |-> SubSeq(s, r, Len(s))]

\* 'system': re.compile(r'^(Unlinking|Linking|COM|Lobby|\*\*\*)')
SystemWords ==
    { <<"U", "n", "l", "i", "n", "k", "i", "n", "g">>,
      <<"L", "i", "n", "k", "i", "n", "g">>,
      <<"C", "O", "M">>,
      <<"L", "o", "b", "b", "y">>,
      <<"*", "*", "*">> }

system(s) == \E w \in SystemWords : IsPrefixAt(w, s, 1)

(***************************************************************************)
(* COMScreenParser: the screen, get_display and parse_messages             *)
(***************************************************************************)
\* text.split('\n'): the pieces between the newlines, at least one piece
RECURSIVE SplitLines(_, _)
SplitLines(text, cur) ==
    IF text = <<>> THEN <<cur>>
    ELSE IF Head(text) = "\n" THEN <<cur>> \o SplitLines(Tail(text), <<>>)
    ELSE SplitLines(Tail(text), Append(cur, Head(text)))

\* '\n'.join(lines)
RECURSIVE JoinLines(_)
JoinLines(lines) ==
    IF lines = <<>> THEN <<>>
    ELSE IF Len(lines) = 1 THEN lines[1]
    ELSE lines[1] \o <<"\n">> \o JoinLines(Tail(lines))

\* the rows of the grid, right-stripped, the empty ones left out
RECURSIVE DisplayRows(_)
DisplayRows(rows) ==
    IF rows = <<>> THEN <<>>
    ELSE LET line == RStrip(Head(rows))
         IN  IF line # <<>> THEN <<line>> \o DisplayRows(Tail(rows))
             ELSE DisplayRows(Tail(rows))

get_display(rows) == JoinLines(DisplayRows(rows))

\* COMMessage; the timestamp (datetime.now()) is read by nothing modelled
COMMessage(msg_type, username, host, content, room, raw_line) ==
    [msg_type |-> msg_type, username |-> username, host |-> host,
     content |-> content, room |-> room, raw_line |-> raw_line]

\* a parse_messages that tests the system keywords before the shapes
ParseLine_SystemFirst(raw, st) ==
    LET line == Strip(raw)
    IN  IF line = <<>> THEN st
        ELSE IF room_header(line).ok
        THEN [st EXCEPT !.room = room_header(line).g1]
        ELSE IF system(line)
        THEN [st EXCEPT !.messages = Append(@,
                COMMessage("system", <<>>, <<>>, line, st.room, line))]
        ELSE IF chat(line).ok
        THEN [st EXCEPT !.messages = Append(@,
                COMMessage("chat", chat(line).g1, chat(line).g2,
                           Strip(chat(line).g3), st.room, line))]
        ELSE IF emote(line).ok
        THEN [st EXCEPT !.messages = Append(@,
                COMMessage("emote", emote(line).g1, emote(line).g2,
                           emote(line).g3 \o <<" ">> \o emote(line).g4,
                           st.room, line))]
        ELSE IF private(line).ok
        THEN [st EXCEPT !.messages = Append(@,
                COMMessage("private", private(line).g1, private(line).g2,
                           Strip(private(line).g3), st.room, line))]
        ELSE st

\* the body of the loop of parse_messages for one line: the messages so
\* far and the current room before the line, the same after it
ParseLine(raw, st) ==
    LET line == Strip(raw)
    IN  IF line = <<>> THEN st
        ELSE IF room_header(line).ok
        THEN [st EXCEPT !.room = room_header(line).g1]
        ELSE IF chat(line).ok
        THEN [st EXCEPT !.messages = Append(@,
                COMMessage("chat", chat(line).g1, chat(line).g2,
                           Strip(chat(line).g3), st.room, line))]
        ELSE IF emote(line).ok
        THEN [st EXCEPT !.messages = Append(@,
                COMMessage("emote", emote(line).g1, emote(line).g2,
                           emote(line).g3 \o <<" ">> \o emote(line).g4,
                           st.room, line))]
        ELSE IF private(line).ok
        THEN [st EXCEPT !.messages = Append(@,
                COMMessage("private", private(line).g1, private(line).g2,
                           Strip(private(line).g3), st.room, line))]
        ELSE IF system(line)
        THEN [st EXCEPT !.messages = Append(@,
                COMMessage("system", <<>>, <<>>, line, st.room, line))]
        ELSE st

RECURSIVE ParseLines(_, _)
ParseLines(lines, st) ==
    IF lines = <<>> THEN st
    ELSE ParseLines(Tail(lines), ParseLine(Head(lines), st))

\* a parse_messages that stamps every event with the room at the end of
\* the text
parse_messages_RoomAtEnd(text, room) ==
    LET r == ParseLines(SplitLines(text, <<>>),
                        [messages |-> <<>>, room |-> room])
    IN  [messages |-> [i \in DOMAIN r.messages |->
                          [r.messages[i] EXCEPT !.room = r.room]],
         room |-> r.room]

\* parse_messages(text) with self.current_room = room on entry:
\* [messages |-> the list returned, room |-> self.current_room on return]
parse_messages(text, room) ==
    ParseLines(SplitLines(text, <<>>), [messages |-> <<>>, room |-> room])

(***************************************************************************)
(* State                                                                   *)
(***************************************************************************)
VARIABLES
    \* COMBridge: self.conn and self.process are "None" or a handle that
    \* is "open" or "closed"; a closed handle is still a truthy object
    conn, process, running, current_room,
    \* which of on_chat_message / on_private_message / on_system_message
    \* hold a handler, and under "feishu" whether on_feishu_message of
    \* FeishuCOMBridge holds a callback
    handlers,
    \* the asyncio.Queue objects: items carry the order number of their put
    message_queue, command_queue,
    \* COMScreenParser: the rows of the grid and self.current_room
    screen, parser_room,
    \* _read_loop: where it is suspended, and whether buffer is non-empty
    readPc, buffer,
    \* _command_loop: where it is suspended, and the command in hand
    cmdPc, cmd,
    \* _process_messages: where it is suspended, and its seen_messages
    dispPc, seen_messages,
    \* SDFComClient: self.conn and self.process
    client_conn, client_process,
    \* FeishuCOMBot.start: where it is
    botPc,
    \* the call that returned in the last step, and how: [op, result];
    \* NoCall after a step that is no such call
    lastCall,
    \* history: the stdin writes attempted (ok: the write went through,
    \* open: the process was open, running: self.running at that time)
    \* and the close() calls on the process and on the connection
    \* (again: the handle was closed already, proc: self.process was
    \* set), in order
    trace,
    \* history: the messages _process_messages took from the queue, in
    \* order, each with what happened to it
    handled,
    \* history: every command put on the command queue, in order
    submitted,
    \* history: puts on the message queue, lifetimes of the dedup window
    enqueued, epoch,
    \* counters that bound a behaviour
    feeds, stops, runs, faults,
    \* what the environment does in this behaviour (see Scenarios)
    scenario

vars ==
    <<conn, process, running, current_room, handlers, message_queue,
      command_queue, screen, parser_room, readPc, buffer, cmdPc, cmd,
      dispPc, seen_messages, client_conn, client_process, botPc, lastCall,
      trace, handled, submitted, enqueued, epoch, feeds, stops, runs, faults,
      scenario>>

bridgeVars == <<conn, process, running, current_room, handlers>>
queueVars == <<message_queue, command_queue, submitted, enqueued>>
parserVars == <<screen, parser_room>>
readVars == <<readPc, buffer>>
cmdVars == <<cmdPc, cmd>>
dispVars == <<dispPc, seen_messages, epoch, handled>>
clientVars == <<client_conn, client_process>>
countVars == <<feeds, stops, runs, faults, scenario>>

\* The environment of one behaviour is one of these:
\*   "calls"     a caller drives COMBridge call by call, in any order
\*               (connect, start_com, run, stop); the remote is silent
\*   "outbound"  FeishuCOMBot.start, then commands are submitted while
\*               the transport may fail; the remote is silent
\*   "inbound"   FeishuCOMBot.start, then the remote prints rows
\*   "client"    SDFComClient is used alone
Scenarios == {"calls", "outbound", "inbound", "client"}

\* The environments in which FeishuCOMBot.start is the caller (main() of
\* sdf_com_bridge.py, in "console", makes the same three calls); in
\* "platform" (see BotSpec) the texts of the chat platform are handled,
\* the remote is silent and a close() of stop() may raise
BotScenarios == {"outbound", "inbound", "platform", "forward", "console"}

\* The environments in which the remote prints rows; in "forward" (see
\* ForwardSpec) they are chat and private rows of the bridge's own user
\* and of another user
RemoteScenarios == {"inbound", "forward"}

\* the login name given to COMBridge and FeishuCOMBot
username == <<"u">>

NoCmd == [type |-> "none"]
NoCall == [op |-> "none", result |-> "none"]

\* COMBridge.__init__, COMScreenParser.__init__, SDFComClient.__init__
Construct ==
    /\ conn = "None"
    /\ process = "None"
    /\ running = FALSE
    /\ current_room = <<"l", "o", "b", "b", "y">>
    /\ handlers = [k \in {"chat", "private", "system", "feishu"} |-> FALSE]
    /\ message_queue = <<>>
    /\ command_queue = <<>>
    /\ screen = <<>>
    /\ parser_room = <<"l", "o", "b", "b", "y">>
    /\ readPc = "idle"
    /\ buffer = FALSE
    /\ cmdPc = "idle"
    /\ cmd = NoCmd
    /\ dispPc = "idle"
    /\ seen_messages = {}
    /\ client_conn = "None"
    /\ client_process = "None"
    /\ botPc = "idle"
    /\ lastCall = NoCall
    /\ trace = <<>>
    /\ handled = <<>>
    /\ submitted = <<>>
    /\ enqueued = 0
    /\ epoch = 0
    /\ feeds = 0
    /\ stops = 0
    /\ runs = 0
    /\ faults = 0

Init == Construct /\ scenario \in Scenarios

(***************************************************************************)
(* COMBridge: connect, start_com, run, stop and the command API            *)
(***************************************************************************)
\* connect(): self.conn is assigned only when asyncssh.connect returns
connect(ok) ==
    /\ conn' = IF ok THEN "open" ELSE conn
    /\ lastCall' = [op |-> "connect",
                    result |-> IF ok THEN "ok" ELSE "ConnectionError"]

\* start_com() without its guard on self.conn
start_com_NoGuard ==
    /\ lastCall' = [op |-> "start_com", result |-> "ok"]
    /\ process' = "open"

\* start_com(): the guard on self.conn, then create_process, which
\* asyncssh refuses on a connection that was closed
start_com ==
    IF conn = "None"
    THEN /\ lastCall' = [op |-> "start_com", result |-> "RuntimeError"]
         /\ UNCHANGED process
    ELSE IF conn = "closed"
    THEN /\ lastCall' = [op |-> "start_com", result |-> "ChannelOpenError"]
         /\ UNCHANGED process
    ELSE /\ lastCall' = [op |-> "start_com", result |-> "ok"]
         /\ process' = "open"

DutiesAtRest ==
    /\ readPc \in {"idle", "done"}
    /\ cmdPc \in {"idle", "done"}
    /\ dispPc \in {"idle", "done"}

\* run(): sets the flag and creates the three tasks; each task starts at
\* its "while self.running" test.  One run() is in progress at a time.
run ==
    /\ DutiesAtRest
    /\ runs < MaxRuns
    /\ runs' = runs + 1
    /\ running' = TRUE
    /\ readPc' = "start"
    /\ cmdPc' = "start"
    /\ dispPc' = "start"

\* Queue.put of a command dict (say, goto, send_raw)
PutCommand(queue, log, c) ==
    /\ command_queue' = Append(queue, [cmd |-> c, id |-> Len(log) + 1])
    /\ submitted' = Append(log, c)

Say(message) == [type |-> "say", content |-> message]
Goto(room) == [type |-> "goto", room |-> room]
Raw(command) == [type |-> "raw", command |-> command]

\* the texts the callers use
Commands == { Say(<<"x">>), Goto(<<"r">>) }

say(message) == PutCommand(command_queue, submitted, Say(message))
goto(room) == PutCommand(command_queue, submitted, Goto(room))
send_raw(command) == PutCommand(command_queue, submitted, Raw(command))

\* which close() of stop() raises, if any
CloseFails == {"none", "process", "conn"}

\* whether a close() raises: only a close() that stop() reaches can, and
\* it is a fault of the behaviour
CloseOutcome(fail) ==
    \/ fail = "none" /\ UNCHANGED faults
    \/ /\ \/ fail = "process" /\ process # "None"
          \/ fail = "conn" /\ conn # "None"
       /\ scenario = "platform"
       /\ faults < MaxFaults
       /\ faults' = faults + 1

\* stop(): no await of it suspends, so it is one atomic step.  Nothing
\* in stop() catches an exception: a close() that raises ends stop()
\* there, the handle stays as it was and what follows is not reached.
stop(fail) ==
    /\ running' = FALSE
    /\ IF process # "None"
       THEN /\ send_raw(<<"q">>)
            /\ process' = IF fail = "process" THEN process ELSE "closed"
       ELSE UNCHANGED <<command_queue, submitted, process>>
    /\ conn' = IF conn # "None" /\ fail = "none" THEN "closed" ELSE conn
    /\ trace' = trace
                \o (IF process # "None"
                    THEN <<[op |-> "pclose", running |-> running,
                            again |-> process = "closed",
                            raised |-> fail = "process"]>>
                    ELSE <<>>)
                \o (IF conn # "None" /\ fail # "process"
                    THEN <<[op |-> "cclose", running |-> running,
                            again |-> conn = "closed",
                            proc |-> process # "None",
                            raised |-> fail = "conn"]>>
                    ELSE <<>>)

(***************************************************************************)
(* _read_loop                                                              *)
(***************************************************************************)
\* the rows the remote scenario may print
FeedLines ==
    { <<"[", "a", "@", "h", "]", " ", "x">>,
      <<"F", "r", "o", "m", " ", "a", "@", "h", ":", " ", "x">>,
      <<"a", "@", "h", " ", ".", " ", "x">>,
      <<"[", "y", "o", "u", " ", "a", "r", "e", " ", "i", "n", " ", "'", "r", "'">> }

\* the rows of the "forward" scenario: a chat row of the bridge's own
\* user, a chat row of another user, a private row of the own user
ForwardLines ==
    { <<"[", "u", "@", "h", "]", " ", "x">>,
      <<"[", "a", "@", "h", "]", " ", "x">>,
      <<"F", "r", "o", "m", " ", "u", "@", "h", ":", " ", "x">> }

\* parser.feed(chunk): the chunk prints one more row, the grid scrolls
\* when it is full
Feed(rows, line) ==
    IF Len(rows) < ScreenRows THEN Append(rows, line)
    ELSE Append(Tail(rows), line)

\* "for msg in messages: await self.message_queue.put(msg)"
PutMessages(queue, msgs, n) ==
    queue \o [i \in 1..Len(msgs) |-> [msg |-> msgs[i], id |-> n + i]]

\* the grids the read loop can build, and the rooms the parser can be in:
\* "lobby" of the constructor and the room the header of FeedLines names
Grids ==
    UNION { [1..n -> FeedLines] \cup [1..n -> ForwardLines] :
            n \in 0..ScreenRows }

Rooms == { <<"l", "o", "b", "b", "y">>, <<"r">> }

\* get_display() then parse_messages(display), worked out once for every
\* grid and room: [messages, room] as parse_messages returns them
DisplayParse ==
    { [grid |-> e[1], room |-> e[2],
       parsed |-> parse_messages(get_display(e[1]), e[2])] :
      e \in Grids \X Rooms }

\* display = get_display(); messages = parse_messages(display); put them
ParseAndQueue(rows) ==
    LET r == (CHOOSE e \in DisplayParse :
                  e.grid = rows /\ e.room = parser_room).parsed
    IN  /\ parser_room' = r.room
        /\ message_queue' = PutMessages(message_queue, r.messages, enqueued)
        /\ enqueued' = enqueued + Len(r.messages)

\* "while self.running:" and then the evaluation of
\* self.process.stdout.read, an AttributeError while process is None
ReadLoopHead ==
    IF ~running THEN "done"
    ELSE IF process = "None" THEN "sleep"
    ELSE "read"

\* wait_for returns a non-empty chunk
ReadChunk(line) ==
    /\ scenario \in RemoteScenarios
    /\ readPc = "read"
    /\ process = "open"
    /\ feeds < MaxFeeds
    /\ feeds' = feeds + 1
    /\ buffer' = TRUE
    /\ screen' = Feed(screen, line)
    /\ ParseAndQueue(screen')
    /\ readPc' = ReadLoopHead
    /\ lastCall' = NoCall
    /\ UNCHANGED <<bridgeVars, command_queue, submitted, cmdVars, dispVars,
                   clientVars, botPc, trace, stops, runs, faults, scenario>>

\* wait_for returns b'' (end of file on a closed process)
ReadEOF ==
    /\ readPc = "read"
    /\ process = "closed"
    /\ readPc' = ReadLoopHead
    /\ lastCall' = NoCall
    /\ UNCHANGED <<bridgeVars, queueVars, parserVars, buffer, cmdVars,
                   dispVars, clientVars, botPc, trace, countVars>>

\* asyncio.TimeoutError: the screen is parsed again if buffer is non-empty
ReadTimeout ==
    /\ readPc = "read"
    /\ process = "open"
    /\ IF buffer
       THEN ParseAndQueue(screen)
       ELSE UNCHANGED <<parser_room, message_queue, enqueued>>
    /\ buffer' = FALSE
    /\ readPc' = ReadLoopHead
    /\ lastCall' = NoCall
    /\ UNCHANGED <<bridgeVars, command_queue, submitted, screen, cmdVars,
                   dispVars, clientVars, botPc, trace, countVars>>

\* a read loop that an exception of the read ends
AfterReadError_Fatal == "done"

\* where the read loop is after an exception of the read: "except
\* Exception" prints it and the loop is suspended in asyncio.sleep(1)
AfterReadError == "sleep"

\* any other exception of the read: print, then asyncio.sleep(1)
ReadError ==
    /\ readPc = "read"
    /\ \/ process = "closed" /\ UNCHANGED faults
       \/ /\ process = "open"
          /\ scenario = "outbound"
          /\ faults < MaxFaults
          /\ faults' = faults + 1
    /\ readPc' = AfterReadError
    /\ lastCall' = NoCall
    /\ UNCHANGED <<bridgeVars, queueVars, parserVars, buffer, cmdVars,
                   dispVars, clientVars, botPc, trace, feeds,
                   stops, runs, scenario>>

\* the end of asyncio.sleep(1)
ReadWake ==
    /\ readPc = "sleep"
    /\ readPc' = ReadLoopHead
    /\ lastCall' = NoCall
    /\ UNCHANGED <<bridgeVars, queueVars, parserVars, buffer, cmdVars,
                   dispVars, clientVars, botPc, trace, countVars>>

(***************************************************************************)
(* _command_loop with _send_message, _goto_room, _send_raw                 *)
(***************************************************************************)
\* senders of which _send_message writes no mode-switch key
Keystrokes_NoModeKey(c) ==
    IF c.type = "say" THEN << c.content \o <<"\n">> >>
    ELSE IF c.type = "goto" THEN << <<"g", "\n">>, c.room \o <<"\n">> >>
    ELSE IF c.type = "raw" THEN << c.command \o <<"\n">> >>
    ELSE <<>>

\* the writes of one command, in order; str.encode() of the ASCII
\* characters of the model is the same characters
Keystrokes(c) ==
    IF c.type = "say" THEN << <<" ">>, c.content \o <<"\n">> >>
    ELSE IF c.type = "goto" THEN << <<"g", "\n">>, c.room \o <<"\n">> >>
    ELSE IF c.type = "raw" THEN << c.command \o <<"\n">> >>
    ELSE <<>>

\* a command loop that never tests the flag ("while True:")
CmdLoopHead_Forever == "get"

\* "while self.running:" of the command loop, then the await of get()
CmdLoopHead == IF running THEN "get" ELSE "done"

\* a sender that tries a failed second write again
WriteKey_Retry(item, k, ok) ==
    /\ trace' = Append(trace, [op |-> "write", id |-> item.id,
                               data |-> Keystrokes(item.cmd)[k], ok |-> ok,
                               open |-> process = "open",
                               running |-> running])
    /\ IF ok
       THEN /\ cmd' = item
            /\ cmdPc' = IF k = 1 THEN "sleep_1" ELSE "sleep_2"
       ELSE IF k = 2
       THEN /\ cmd' = item
            /\ cmdPc' = "sleep_1"
       ELSE /\ cmd' = NoCmd
            /\ cmdPc' = CmdLoopHead

\* a command loop that a failed write ends
WriteKey_Fatal(item, k, ok) ==
    /\ trace' = Append(trace, [op |-> "write", id |-> item.id,
                               data |-> Keystrokes(item.cmd)[k], ok |-> ok,
                               open |-> process = "open",
                               running |-> running])
    /\ cmd' = IF ok THEN item ELSE NoCmd
    /\ cmdPc' = IF ~ok THEN "done"
                ELSE IF k = 1 THEN "sleep_1" ELSE "sleep_2"

\* self.process.stdin.write(data) and drain() for keystroke k of item:
\* on success the loop is suspended in the sleep that follows, on an
\* exception "except Exception" prints and the loop goes round.
\* asyncssh raises BrokenPipeError for a write on a closed channel.
WriteKey(item, k, ok) ==
    /\ trace' = Append(trace, [op |-> "write", id |-> item.id,
                               data |-> Keystrokes(item.cmd)[k], ok |-> ok,
                               open |-> process = "open",
                               running |-> running])
    /\ IF ok
       THEN /\ cmd' = item
            /\ cmdPc' = IF k = 1 THEN "sleep_1" ELSE "sleep_2"
       ELSE /\ cmd' = NoCmd
            /\ cmdPc' = CmdLoopHead

\* whether a write succeeds: never on a missing or closed process; on an
\* open one the transport may fail
WriteOutcome(ok) ==
    \/ ok /\ process = "open" /\ UNCHANGED faults
    \/ ~ok /\ process # "open" /\ UNCHANGED faults
    \/ /\ ~ok
       /\ process = "open"
       /\ scenario = "outbound"
       /\ faults < MaxFaults
       /\ faults' = faults + 1

\* a queue that hands out its newest item
NextCommand_Newest(queue) == queue[Len(queue)]

\* the command the loop takes from the queue
NextCommand(queue) == Head(queue)

\* asyncio.TimeoutError of get(): continue
CmdTimeout ==
    /\ cmdPc = "get"
    /\ command_queue = <<>>
    /\ cmdPc' = CmdLoopHead
    /\ lastCall' = NoCall
    /\ UNCHANGED <<bridgeVars, queueVars, parserVars, readVars, cmd,
                   dispVars, clientVars, botPc, trace, countVars>>

\* get() returns a command: its first write
CmdGet(ok) ==
    /\ cmdPc = "get"
    /\ command_queue # <<>>
    /\ command_queue' = Tail(command_queue)
    /\ WriteOutcome(ok)
    /\ WriteKey(NextCommand(command_queue), 1, ok)
    /\ lastCall' = NoCall
    /\ UNCHANGED <<bridgeVars, message_queue, submitted, enqueued,
                   parserVars, readVars, dispVars, clientVars, botPc,
                   feeds, stops, runs, scenario>>

\* the end of the sleep after the first write: the second write, or the
\* end of a one-write command
CmdWake1(ok) ==
    /\ cmdPc = "sleep_1"
    /\ IF Len(Keystrokes(cmd.cmd)) > 1
       THEN /\ WriteOutcome(ok)
            /\ WriteKey(cmd, 2, ok)
       ELSE /\ ok
            /\ cmd' = NoCmd
            /\ cmdPc' = CmdLoopHead
            /\ UNCHANGED <<trace, faults>>
    /\ lastCall' = NoCall
    /\ UNCHANGED <<bridgeVars, queueVars, parserVars, readVars, dispVars,
                   clientVars, botPc, feeds, stops, runs, scenario>>

\* the end of the sleep after the second write; _goto_room then sets
\* self.current_room
CmdWake2 ==
    /\ cmdPc = "sleep_2"
    /\ current_room' = IF cmd.cmd.type = "goto" THEN cmd.cmd.room
                       ELSE current_room
    /\ cmd' = NoCmd
    /\ cmdPc' = CmdLoopHead
    /\ lastCall' = NoCall
    /\ UNCHANGED <<conn, process, running, handlers, queueVars, parserVars,
                   readVars, dispVars, clientVars, botPc, trace,
                   countVars>>

(***************************************************************************)
(* _process_messages with _call_handler                                    *)
(***************************************************************************)
\* a key that tells the kinds apart
MsgKey_WithKind(msg) ==
    msg.username \o <<":">> \o msg.host \o <<":">> \o msg.content
        \o <<":">> \o <<msg.msg_type>>

\* msg_key = f"{msg.username}:{msg.host}:{msg.content}"
MsgKey(msg) == msg.username \o <<":">> \o msg.host \o <<":">> \o msg.content

\* a dedup set that is never cleared
AddSeen_NoClear(seen, key) == seen \cup {key}

\* a size test that clears the set as soon as it is full (">=")
AddSeen_AtCapacity(seen, key) ==
    IF Cardinality(seen \cup {key}) >= DedupCapacity THEN {}
    ELSE seen \cup {key}

\* a clear that keeps the key that was just added
AddSeen_KeepsNewest(seen, key) ==
    IF Cardinality(seen \cup {key}) > DedupCapacity THEN {key}
    ELSE seen \cup {key}

\* seen_messages after "add(msg_key)" and the size test that clears it
AddSeen(seen, key) ==
    IF Cardinality(seen \cup {key}) > DedupCapacity THEN {}
    ELSE seen \cup {key}

\* a chain that hands every message to the chat handler
HandlerFor_AnyKind(msg) == IF handlers["chat"] THEN "chat" ELSE "none"

\* the handler slot the if/elif chain picks for a message, "none" when
\* the kind has no slot or the slot is empty
HandlerFor(msg) ==
    IF msg.msg_type = "chat" /\ handlers["chat"] THEN "chat"
    ELSE IF msg.msg_type = "private" /\ handlers["private"] THEN "private"
    ELSE IF msg.msg_type = "system" /\ handlers["system"] THEN "system"
    ELSE "none"

\* a dispatch loop that lost its duplicate test
IsDuplicate_NoTest(seen, key) == FALSE

\* "if msg_key in seen_messages: continue"
IsDuplicate(seen, key) == key \in seen

\* FeishuCOMBridge._call_handler(self.on_feishu_message, feishu_msg): the
\* dicts handed to the callback, none when no callback is registered
CallFeishu(feishu_msg) ==
    IF handlers["feishu"] THEN <<feishu_msg>> ELSE <<>>

\* a chat handler that forwards the messages of the own user too
handle_com_chat_NoSkip(msg) ==
    IF msg.msg_type # "chat" THEN <<>>
    ELSE CallFeishu([source |-> "com", room |-> msg.room,
                     from |-> msg.username \o <<"@">> \o msg.host,
                     content |-> msg.content, needs_translation |-> TRUE,
                     target_lang |-> "zh", is_private |-> FALSE])

\* FeishuCOMBridge._handle_com_chat: the dicts it hands to the callback
\* (is_private is absent from the dict of a chat message; msg.get reads
\* it as false)
handle_com_chat(msg) ==
    IF msg.msg_type # "chat" THEN <<>>
    ELSE IF msg.username = username THEN <<>>
    ELSE CallFeishu([source |-> "com", room |-> msg.room,
                     from |-> msg.username \o <<"@">> \o msg.host,
                     content |-> msg.content, needs_translation |-> TRUE,
                     target_lang |-> "zh", is_private |-> FALSE])

\* FeishuCOMBridge._handle_com_private
handle_com_private(msg) ==
    CallFeishu([source |-> "com", room |-> <<"p", "r", "i", "v", "a", "t", "e">>,
                from |-> msg.username \o <<"@">> \o msg.host,
                content |-> msg.content, needs_translation |-> TRUE,
                target_lang |-> "zh", is_private |-> TRUE])

\* what the handler in a slot hands to the platform callback: the slots
\* hold the handlers of FeishuCOMBridge.setup_handlers
Forwarded(msg, slot) ==
    IF slot = "chat" THEN handle_com_chat(msg)
    ELSE IF slot = "private" THEN handle_com_private(msg)
    ELSE <<>>

\* an entry of the history handled: the order number of the message,
\* its kind, its (username, host, content), its room, the lifetime of
\* the dedup window it was tested in, the handler slot invoked ("none":
\* no handler for it, "dup": dropped as a duplicate), what the handler
\* handed to the platform callback and whether the handler raised
Taken(item, slot, e) ==
    [id |-> item.id, kind |-> item.msg.msg_type, slot |-> slot, epoch |-> e,
     fp |-> <<item.msg.username, item.msg.host, item.msg.content>>,
     room |-> item.msg.room, sent |-> Forwarded(item.msg, slot),
     raised |-> FALSE]

\* a queue that hands out its newest item
NextMessage_Newest(queue) == queue[Len(queue)]

\* the message the loop takes from the queue
NextMessage(queue) == Head(queue)

DispLoopHead == IF running THEN "get" ELSE "done"

\* The three tasks of run() are created together and start one after
\* the other, each running to its first await: buffer = b"",
\* seen_messages = set(), and the first "while self.running" tests.
DutiesStart ==
    /\ readPc = "start"
    /\ readPc' = ReadLoopHead
    /\ buffer' = FALSE
    /\ cmdPc' = CmdLoopHead
    /\ dispPc' = DispLoopHead
    /\ seen_messages' = {}
    /\ epoch' = epoch + 1
    /\ lastCall' = NoCall
    /\ UNCHANGED <<bridgeVars, queueVars, parserVars, cmd, handled,
                   clientVars, botPc, trace, countVars>>

\* asyncio.TimeoutError of get(): continue
DispTimeout ==
    /\ dispPc = "get"
    /\ message_queue = <<>>
    /\ dispPc' = DispLoopHead
    /\ lastCall' = NoCall
    /\ UNCHANGED <<bridgeVars, queueVars, parserVars, readVars, cmdVars,
                   seen_messages, epoch, handled, clientVars, botPc,
                   trace, countVars>>

\* get() returns a message: dedup, then the handler of its kind
DispGet ==
    /\ dispPc = "get"
    /\ message_queue # <<>>
    /\ message_queue' = Tail(message_queue)
    /\ LET item == NextMessage(message_queue)
           key == MsgKey(item.msg)
           slot == HandlerFor(item.msg)
       IN  IF IsDuplicate(seen_messages, key)
           THEN /\ dispPc' = DispLoopHead
                /\ handled' = Append(handled, Taken(item, "dup", epoch))
                /\ UNCHANGED <<seen_messages, epoch>>
           ELSE /\ seen_messages' = AddSeen(seen_messages, key)
                /\ epoch' = IF seen_messages' = {} THEN epoch + 1 ELSE epoch
                /\ handled' = Append(handled, Taken(item, slot, epoch))
                /\ dispPc' = IF slot # "none" THEN "handler"
                             ELSE DispLoopHead
    /\ lastCall' = NoCall
    /\ UNCHANGED <<bridgeVars, command_queue, submitted, enqueued,
                   parserVars, readVars, cmdVars, clientVars, botPc,
                   trace, countVars>>

\* a dispatch loop that an exception of a handler ends
AfterHandler_Propagate(raised) == IF raised THEN "done" ELSE DispLoopHead

\* where the dispatch loop is after "await self._call_handler(...)":
\* _call_handler catches the Exception of the handler and prints it
AfterHandler(raised) == DispLoopHead

\* the handler returns, or raises (a fault of the behaviour)
DispReturn(raised) ==
    /\ dispPc = "handler"
    /\ IF raised
       THEN /\ faults < MaxFaults
            /\ faults' = faults + 1
            /\ handled' = [handled EXCEPT ![Len(handled)].raised = TRUE]
       ELSE UNCHANGED <<faults, handled>>
    /\ dispPc' = AfterHandler(raised)
    /\ lastCall' = NoCall
    /\ UNCHANGED <<bridgeVars, queueVars, parserVars, readVars, cmdVars,
                   seen_messages, epoch, clientVars, botPc,
                   trace, feeds, stops, runs, scenario>>

(***************************************************************************)
(* SDFComClient: connect and start_com                                     *)
(***************************************************************************)
client_connect(ok) ==
    /\ client_conn' = IF ok THEN "open" ELSE client_conn
    /\ lastCall' = [op |-> "client.connect",
                    result |-> IF ok THEN "ok" ELSE "ConnectionError"]

client_start_com ==
    IF client_conn = "None"
    THEN /\ lastCall' = [op |-> "client.start_com", result |-> "RuntimeError"]
         /\ UNCHANGED client_process
    ELSE /\ lastCall' = [op |-> "client.start_com", result |-> "ok"]
         /\ client_process' = "open"

(***************************************************************************)
(* The callers                                                             *)
(***************************************************************************)
allDuties == <<readVars, cmdVars, dispVars>>

Connect(ok) ==
    /\ scenario = "calls"
    /\ connect(ok)
    /\ UNCHANGED <<process, running, current_room, handlers, queueVars,
                   parserVars, allDuties, clientVars, botPc, trace, countVars>>

StartCom ==
    /\ scenario = "calls"
    /\ start_com
    /\ UNCHANGED <<conn, running, current_room, handlers, queueVars,
                   parserVars, allDuties, clientVars, botPc, trace, countVars>>

Run ==
    /\ scenario = "calls"
    /\ run
    /\ lastCall' = NoCall
    /\ UNCHANGED <<conn, process, current_room, handlers, queueVars,
                   parserVars, buffer, cmd, seen_messages, epoch, handled,
                   clientVars, botPc, trace, feeds, stops, faults, scenario>>

Stop ==
    /\ scenario # "client"
    /\ stops < MaxStops
    /\ stops' = stops + 1
    /\ \E fail \in CloseFails : CloseOutcome(fail) /\ stop(fail)
    /\ lastCall' = NoCall
    /\ UNCHANGED <<current_room, handlers, message_queue, enqueued,
                   parserVars, allDuties, clientVars, botPc, feeds, runs,
                   scenario>>

\* commands put by callers, the "q" of stop() not counted
Submissions == Len(SelectSeq(submitted, LAMBDA c : c # Raw(<<"q">>)))

Submit(c) ==
    /\ scenario = "outbound"
    /\ Submissions < MaxCmds
    /\ \/ c.type = "say" /\ say(c.content)
       \/ c.type = "goto" /\ goto(c.room)
       \/ c.type = "raw" /\ send_raw(c.command)
    /\ lastCall' = NoCall
    /\ UNCHANGED <<bridgeVars, message_queue, enqueued, parserVars,
                   allDuties, clientVars, botPc, trace, countVars>>

\* FeishuCOMBridge.setup_handlers
setup_handlers ==
    handlers' = [handlers EXCEPT !["chat"] = TRUE, !["private"] = TRUE]

\* FeishuCOMBot.setup: the callback, then setup_handlers
setup ==
    handlers' = [handlers EXCEPT !["feishu"] = TRUE, !["chat"] = TRUE,
                                 !["private"] = TRUE]

BotSetup ==
    /\ scenario = "forward"
    /\ conn = "None" /\ runs = 0 /\ stops = 0
    /\ setup
    /\ lastCall' = NoCall
    /\ UNCHANGED <<conn, process, running, current_room, queueVars,
                   parserVars, allDuties, clientVars, botPc, trace, countVars>>

\* both scripts register the handlers before they connect
SetupHandlers ==
    /\ scenario \in RemoteScenarios
    /\ conn = "None" /\ runs = 0 /\ stops = 0
    /\ setup_handlers
    /\ lastCall' = NoCall
    /\ UNCHANGED <<conn, process, running, current_room, queueVars,
                   parserVars, allDuties, clientVars, botPc, trace, countVars>>

ClientConnect(ok) ==
    /\ scenario = "client"
    /\ client_connect(ok)
    /\ UNCHANGED <<bridgeVars, queueVars, parserVars, allDuties,
                   client_process, botPc, trace, countVars>>

ClientStartCom ==
    /\ scenario = "client"
    /\ client_start_com
    /\ UNCHANGED <<bridgeVars, queueVars, parserVars, allDuties,
                   client_conn, botPc, trace, countVars>>

(***************************************************************************)
(* FeishuCOMBot.start and FeishuCOMBot.stop                                *)
(***************************************************************************)
\* a start() that catches the exception of connect and goes on
AfterConnect_Swallow(ok) == "connected"

\* where start() is after its "await self.bridge.connect()": an
\* exception of connect leaves start() at once
AfterConnect(ok) == IF ok THEN "connected" ELSE "connect_failed"

BotStartConnect(ok) ==
    /\ scenario \in BotScenarios
    /\ botPc = "idle"
    /\ connect(ok)
    /\ botPc' = AfterConnect(ok)
    /\ UNCHANGED <<process, running, current_room, handlers, queueVars,
                   parserVars, allDuties, clientVars, trace, countVars>>

BotStartCom ==
    /\ scenario \in BotScenarios
    /\ botPc = "connected"
    /\ start_com
    /\ botPc' = IF lastCall'.result = "ok" THEN "started"
                ELSE "start_com_failed"
    /\ UNCHANGED <<conn, running, current_room, handlers, queueVars,
                   parserVars, allDuties, clientVars, trace, countVars>>

\* self._bridge_task = asyncio.create_task(self.bridge.run())
BotStartRun ==
    /\ scenario \in BotScenarios
    /\ botPc = "started"
    /\ run
    /\ botPc' = "ready"
    /\ lastCall' = NoCall
    /\ UNCHANGED <<conn, process, current_room, handlers, queueVars,
                   parserVars, buffer, cmd, seen_messages, epoch, handled,
                   clientVars, trace, feeds, stops, faults, scenario>>

\* a cancelled task ends at the await where it is suspended
Cancelled(pc) == IF pc = "idle" THEN "idle" ELSE "done"

\* FeishuCOMBot.stop: bridge.stop(), then the run task is cancelled
BotStop ==
    /\ scenario \in {"outbound", "inbound"}
    /\ botPc = "ready"
    /\ stops < MaxStops
    /\ stops' = stops + 1
    /\ \E fail \in CloseFails : CloseOutcome(fail) /\ stop(fail)
    /\ readPc' = Cancelled(readPc)
    /\ cmdPc' = Cancelled(cmdPc)
    /\ dispPc' = Cancelled(dispPc)
    /\ cmd' = NoCmd
    /\ lastCall' = NoCall
    /\ UNCHANGED <<current_room, handlers, message_queue, enqueued,
                   parserVars, buffer, seen_messages, epoch, handled,
                   clientVars, botPc, feeds, runs, scenario>>

(***************************************************************************)
(* FeishuCOMBot.handle_feishu_message and TranslationService               *)
(*                                                                         *)
(* The replies are Chinese sentences in the source; a reply is modelled as *)
(* its literal part, one token that names the sentence in English,         *)
(* followed by the characters of the value that is formatted into it.      *)
(* The two Chinese command words (U+5E2E U+52A9 for help, U+72B6 U+6001    *)
(* for status) are texts of two tokens that name the characters.           *)
(***************************************************************************)
help_zh == <<"U+5E2E", "U+52A9">>
status_zh == <<"U+72B6", "U+6001">>

\* a translation that returns its argument
translate_Identity(text, source_lang, target_lang) == text

\* TranslationService.translate: the two placeholders; the cache returns
\* what the same call returned before, which is the same text
translate(text, source_lang, target_lang) ==
    IF source_lang = "zh" /\ target_lang = "en"
    THEN <<"[", "E", "N", "]", " ">> \o text
    ELSE IF source_lang = "en" /\ target_lang = "zh"
    THEN <<"[", "U+4E2D", "U+6587", "]", " ">> \o text
    ELSE text

\* str.startswith
StartsWith(s, lit) == IsPrefixAt(lit, s, 1)

\* text[2:]
From2(s) == SubSeq(s, 3, Len(s))

\* a chain without the tests for the help and status words
Branch_NoWords(text) ==
    IF text = <<>> THEN "empty"
    ELSE IF StartsWith(text, <<"t", ":">>)
    THEN IF Strip(From2(text)) = <<>> THEN "t_empty" ELSE "translate"
    ELSE IF StartsWith(text, <<"g", ":">>)
    THEN IF Strip(From2(text)) = <<>> THEN "g_empty" ELSE "goto"
    ELSE IF text \in {<<"w">>, <<"l">>, <<"r">>, <<"h">>, <<"I">>, <<"q">>}
    THEN IF text = <<"q">> THEN "quit" ELSE "raw"
    ELSE "say"

\* the branch of handle_feishu_message that a stripped text takes: the
\* if / elif chain in its order
Branch(text) ==
    IF text = <<>> THEN "empty"
    ELSE IF StartsWith(text, <<"t", ":">>)
    THEN IF Strip(From2(text)) = <<>> THEN "t_empty" ELSE "translate"
    ELSE IF StartsWith(text, <<"g", ":">>)
    THEN IF Strip(From2(text)) = <<>> THEN "g_empty" ELSE "goto"
    ELSE IF text \in {<<"w">>, <<"l">>, <<"r">>, <<"h">>, <<"I">>, <<"q">>}
    THEN IF text = <<"q">> THEN "quit" ELSE "raw"
    ELSE IF text \in {<<"h", "e", "l", "p">>, help_zh} THEN "help"
    ELSE IF text \in {<<"s", "t", "a", "t", "u", "s">>, status_zh}
    THEN "status"
    ELSE "say"

\* the string that handle_feishu_message returns on a branch
Reply(text) ==
    LET b == Branch(text)
    IN  IF b = "empty" THEN <<"enter a command or a message">>
        ELSE IF b = "t_empty" THEN <<"enter the Chinese text after t:">>
        ELSE IF b = "translate"
        THEN <<"sent the translation: ">>
             \o translate(Strip(From2(text)), "zh", "en")
        ELSE IF b = "g_empty" THEN <<"enter the room name after g:">>
        ELSE IF b = "goto" THEN <<"switched to room: ">> \o Strip(From2(text))
        ELSE IF b = "quit" THEN <<"disconnected">>
        ELSE IF b = "raw" THEN <<"executed command: ">> \o text
        ELSE IF b = "help" THEN <<"help text">>
        ELSE IF b = "status"
        THEN <<"current room: ">> \o current_room
             \o <<"\n", "user name: ">> \o username
        ELSE <<"sent: ">> \o text

\* handle_feishu_message(raw): text = raw.strip(), then the branch.  No
\* await in it suspends, so it is one atomic step.  Only the "quit"
\* branch can raise: it awaits self.bridge.stop() outside any try.
handle_feishu_message(raw, fail) ==
    LET text == Strip(raw)
        b == Branch(text)
    IN  /\ b # "quit" => fail = "none"
        /\ IF b = "translate"
           THEN say(translate(Strip(From2(text)), "zh", "en"))
           ELSE IF b = "goto" THEN goto(Strip(From2(text)))
           ELSE IF b = "raw" THEN send_raw(text)
           ELSE IF b = "say" THEN say(text)
           ELSE IF b = "quit" THEN TRUE
           ELSE UNCHANGED <<command_queue, submitted>>
        /\ IF b = "quit" THEN stop(fail)
           ELSE UNCHANGED <<running, process, conn, trace>>
        /\ lastCall' = [op |-> "handle_feishu_message", text |-> raw,
                        result |-> IF fail = "none" THEN "ok"
                                   ELSE "Exception",
                        reply |-> IF fail = "none" THEN Reply(text)
                                  ELSE <<>>]

\* the texts the platform sends
Texts ==
    { <<>>, <<" ">>,
      <<"t", ":", "x">>, <<" ", "t", ":", " ", "x", " ">>, <<"t", ":", " ">>,
      <<"g", ":", "r">>, <<"g", ":">>,
      <<"w">>, <<"q">>,
      <<"h", "e", "l", "p">>, help_zh,
      <<"s", "t", "a", "t", "u", "s">>, status_zh,
      <<"x">>, <<" ", "x", " ">> }

Queues(raw) == Branch(Strip(raw)) \in {"translate", "goto", "raw", "say"}

\* A text is handled before start() is called or after it has returned
\* (test_bot awaits start() before it reads its first text).
HandleFeishuMessage(raw) ==
    /\ scenario = "platform"
    /\ botPc \in {"idle", "ready"}
    /\ Queues(raw) => Submissions < MaxTexts
    /\ IF Branch(Strip(raw)) = "quit"
       THEN /\ stops < MaxStops
            /\ stops' = stops + 1
       ELSE UNCHANGED stops
    /\ \E fail \in CloseFails :
           CloseOutcome(fail) /\ handle_feishu_message(raw, fail)
    /\ UNCHANGED <<current_room, handlers, message_queue, enqueued,
                   parserVars, allDuties, clientVars, botPc, feeds, runs,
                   scenario>>

(***************************************************************************)
(* FeishuCOMBridge.handle_feishu_input, the parser of main()               *)
(***************************************************************************)
\* the branch of handle_feishu_input that a stripped text takes
InputBranch(text) ==
    IF StartsWith(text, <<"t", ":">>) THEN "translate_and_send"
    ELSE IF StartsWith(text, <<"g", ":">>) THEN "goto"
    ELSE IF text \in {<<"w">>, <<"l">>, <<"r">>, <<"h">>, <<"I">>}
    THEN "command"
    ELSE IF text = <<"q">> THEN "quit"
    ELSE "say"

\* the dict that handle_feishu_input returns
InputResult(text) ==
    LET b == InputBranch(text)
    IN  IF b = "translate_and_send"
        THEN [action |-> b, source |-> Strip(From2(text)),
              target_lang |-> "en"]
        ELSE IF b = "goto" THEN [action |-> b, room |-> Strip(From2(text))]
        ELSE IF b = "command" THEN [action |-> b, command |-> text]
        ELSE IF b = "quit" THEN [action |-> b]
        ELSE [action |-> b, content |-> text]

\* handle_feishu_input(raw): text = raw.strip(), then the branch; the
\* "t:" branch only returns its dict
handle_feishu_input(raw, fail) ==
    LET text == Strip(raw)
        b == InputBranch(text)
    IN  /\ b # "quit" => fail = "none"
        /\ IF b = "goto" THEN goto(Strip(From2(text)))
           ELSE IF b = "command" THEN send_raw(text)
           ELSE IF b = "say" THEN say(text)
           ELSE IF b = "quit" THEN TRUE
           ELSE UNCHANGED <<command_queue, submitted>>
        /\ IF b = "quit" THEN stop(fail)
           ELSE UNCHANGED <<running, process, conn, trace>>
        /\ lastCall' = [op |-> "handle_feishu_input", text |-> raw,
                        result |-> IF fail = "none" THEN "ok"
                                   ELSE "Exception",
                        reply |-> IF fail = "none" THEN InputResult(text)
                                  ELSE [action |-> "none"]]

\* the texts typed at the prompt of main()
InputTexts ==
    { <<>>, <<"t", ":", "x">>, <<"g", ":", "r">>, <<"g", ":">>,
      <<"w">>, <<"q">>, <<"h", "e", "l", "p">>, <<" ", "x", " ">> }

\* main() reads its first text after bridge.run() was started
HandleFeishuInput(raw) ==
    /\ scenario = "console"
    /\ botPc = "ready"
    /\ InputBranch(Strip(raw)) \in {"goto", "command", "say"}
           => Submissions < MaxTexts
    /\ IF InputBranch(Strip(raw)) = "quit"
       THEN /\ stops < MaxStops
            /\ stops' = stops + 1
       ELSE UNCHANGED stops
    /\ \E fail \in CloseFails :
           CloseOutcome(fail) /\ handle_feishu_input(raw, fail)
    /\ UNCHANGED <<current_room, handlers, message_queue, enqueued,
                   parserVars, allDuties, clientVars, botPc, feeds, runs,
                   scenario>>

(***************************************************************************)
(* The specification                                                       *)
(***************************************************************************)
ReadLoop ==
    \/ \E line \in FeedLines : ReadChunk(line)
    \/ ReadEOF
    \/ ReadTimeout
    \/ ReadError
    \/ ReadWake

CommandLoop ==
    \/ CmdTimeout
    \/ \E ok \in BOOLEAN : CmdGet(ok)
    \/ \E ok \in BOOLEAN : CmdWake1(ok)
    \/ CmdWake2

DispatchLoop ==
    \/ DispTimeout
    \/ DispGet
    \/ \E raised \in BOOLEAN : DispReturn(raised)

Callers ==
    \/ \E ok \in BOOLEAN : Connect(ok)
    \/ StartCom
    \/ Run
    \/ Stop
    \/ \E c \in Commands : Submit(c)
    \/ SetupHandlers
    \/ \E ok \in BOOLEAN : ClientConnect(ok)
    \/ ClientStartCom
    \/ \E ok \in BOOLEAN : BotStartConnect(ok)
    \/ BotStartCom
    \/ BotStartRun
    \/ BotStop

Next == DutiesStart \/ ReadLoop \/ CommandLoop \/ DispatchLoop \/ Callers

Spec == Init /\ [][Next]_vars

(***************************************************************************)
(* COMScreenParser used alone: rows are fed to the screen and the display  *)
(* is parsed, as the read loop does it, with no bridge running.  The rows  *)
(* are the ones of FeedLines and rows that more than one pattern matches.  *)
(***************************************************************************)
ParserLines ==
    FeedLines \cup
    { <<"*", "*", "*", " ", "x">>,
      <<"C", "O", "M", "@", "h", " ", ".", " ", "x">>,
      <<"*", "*", "*", " ", "[", "y", "o", "u", " ", "a", "r", "e", " ", "i", "n", " ", "'", "b", "'">>,
      <<"[", "a", "@", "h", "]", " ", "[", "y", "o", "u", " ", "a", "r", "e", " ", "i", "n", " ", "'", "b", "'">>,
      <<"x">>,
      <<" ", "[", "b", "@", "h", "]", " ", " ", "x", " ">>,
      <<" ">> }

ParserInit == Construct /\ scenario = "parser"

\* parser.feed(chunk)
ParserFeed(line) ==
    /\ screen' = Feed(screen, line)
    /\ lastCall' = NoCall
    /\ UNCHANGED <<bridgeVars, queueVars, parser_room, readVars, cmdVars,
                   dispVars, clientVars, botPc, trace, countVars>>

\* messages = parser.parse_messages(parser.get_display()); the call is
\* recorded with its argument and self.current_room on entry
ParseDisplay ==
    LET text == get_display(screen)
        r == parse_messages(text, parser_room)
    IN  /\ parser_room' = r.room
        /\ lastCall' = [op |-> "parse_messages", text |-> text,
                        room |-> parser_room, result |-> r.messages]
        /\ UNCHANGED <<bridgeVars, queueVars, screen, readVars, cmdVars,
                       dispVars, clientVars, botPc, trace, countVars>>

ParserNext ==
    \/ \E line \in ParserLines : ParserFeed(line)
    \/ ParseDisplay

ParserSpec == ParserInit /\ [][ParserNext]_vars

(***************************************************************************)
(* The bot driven from the chat platform: FeishuCOMBot.start, then texts   *)
(* are handled while the duties run.                                       *)
(***************************************************************************)
BotInit == Construct /\ scenario = "platform"

BotNext ==
    \/ DutiesStart
    \/ ReadEOF
    \/ ReadTimeout
    \/ ReadError
    \/ ReadWake
    \/ CommandLoop
    \/ DispTimeout
    \/ \E ok \in BOOLEAN : BotStartConnect(ok)
    \/ BotStartCom
    \/ BotStartRun
    \/ \E raw \in Texts : HandleFeishuMessage(raw)

BotSpec == BotInit /\ [][BotNext]_vars

(***************************************************************************)
(* The bot with a talking remote: handlers and callback are registered     *)
(* (FeishuCOMBot.setup, or setup_handlers alone with no callback), start() *)
(* runs, and the remote prints the rows of ForwardLines.                   *)
(***************************************************************************)
ForwardInit == Construct /\ scenario = "forward"

ForwardNext ==
    \/ DutiesStart
    \/ \E line \in ForwardLines : ReadChunk(line)
    \/ ReadTimeout
    \/ CmdTimeout
    \/ DispatchLoop
    \/ BotSetup
    \/ SetupHandlers
    \/ \E ok \in BOOLEAN : BotStartConnect(ok)
    \/ BotStartCom
    \/ BotStartRun

ForwardSpec == ForwardInit /\ [][ForwardNext]_vars

(***************************************************************************)
(* main() of sdf_com_bridge.py: connect, start_com and run as in           *)
(* FeishuCOMBot.start, then the texts typed at its prompt are handled by   *)
(* handle_feishu_input while the duties run.                               *)
(***************************************************************************)
InputInit == Construct /\ scenario = "console"

InputNext ==
    \/ DutiesStart
    \/ ReadEOF
    \/ ReadTimeout
    \/ ReadError
    \/ ReadWake
    \/ CommandLoop
    \/ DispTimeout
    \/ \E ok \in BOOLEAN : BotStartConnect(ok)
    \/ BotStartCom
    \/ BotStartRun
    \/ \E raw \in InputTexts : HandleFeishuInput(raw)

InputSpec == InputInit /\ [][InputNext]_vars

(***************************************************************************)
(* Claims                                                                  *)
(***************************************************************************)
Invoked(e) == e.slot \notin {"none", "dup"}

\* C1: of two messages with the same (username, host, content) that the
\* dispatch loop takes within one lifetime of the dedup window (no clear
\* and no restart of the loop between them), the later one is dropped as
\* a duplicate: it invokes no handler.
C1_DedupWithinLifetime ==
    \A i, j \in DOMAIN handled :
        (i < j /\ handled[i].fp = handled[j].fp
               /\ handled[i].epoch = handled[j].epoch)
            => handled[j].slot = "dup"

\* C1 witness: a message reached its handler and a second copy of it,
\* queued again by a later parse of the screen, was dropped in the same
\* lifetime of the window.
C1_Witness ==
    \E i, j \in DOMAIN handled :
        /\ i < j
        /\ handled[i].fp = handled[j].fp
        /\ handled[i].epoch = handled[j].epoch
        /\ Invoked(handled[i])
        /\ handled[j].slot = "dup"

\* C3: handlers are invoked in the order in which the messages were put on
\* the message queue: order numbers grow along the handler invocations.
C3_HandlersInQueueOrder ==
    \A i, j \in DOMAIN handled :
        (i < j /\ Invoked(handled[i]) /\ Invoked(handled[j]))
            => handled[i].id < handled[j].id

\* C3 witness: two messages have reached a handler.
C3_Witness ==
    \E i, j \in DOMAIN handled :
        i < j /\ Invoked(handled[i]) /\ Invoked(handled[j])

\* the stdin writes attempted, in order
Writes == SelectSeq(trace, LAMBDA e : e.op = "write")

\* the data that reached stdin, in order
Stream == [i \in 1..Len(SelectSeq(Writes, LAMBDA e : e.ok)) |->
              SelectSeq(Writes, LAMBDA e : e.ok)[i].data]

\* the keystrokes of a list of commands, one after the other
RECURSIVE AllKeystrokes(_)
AllKeystrokes(cmds) ==
    IF cmds = <<>> THEN <<>>
    ELSE Keystrokes(Head(cmds)) \o AllKeystrokes(Tail(cmds))

IsPrefixOf(a, b) == Len(a) <= Len(b) /\ a = SubSeq(b, 1, Len(a))

WritesBefore(p, id) ==
    Cardinality({q \in 1..(p - 1) : Writes[q].id = id})

ProcessCloses == SelectSeq(trace, LAMBDA e : e.op = "pclose")
ConnCloses == SelectSeq(trace, LAMBDA e : e.op = "cclose")

\* C4 as stated: across the calls of stop() no handle is closed a second
\* time: close() is never called on a process or a connection that is
\* closed already.
C4_ClosedExactlyOnce ==
    runs > 0 =>
        \A i \in DOMAIN trace :
            /\ trace[i].op = "pclose" => ~trace[i].again
            /\ (trace[i].op = "cclose" /\ trace[i].proc) => ~trace[i].again

\* the write of the quit sequence that went through
IsQuitWrite(e) == e.op = "write" /\ e.ok /\ e.data = <<"q", "\n">>

\* C5 as stated: when stop() is called on a running bridge, 'q' + newline
\* is written to stdin before the process is closed, and the process is
\* closed before the connection.
C5_QuitBeforeClose ==
    \A i \in DOMAIN trace :
        /\ (trace[i].op = "pclose" /\ trace[i].running)
              => \E j \in 1..(i - 1) : IsQuitWrite(trace[j])
        /\ (trace[i].op = "cclose" /\ trace[i].proc)
              => (i > 1 /\ trace[i - 1].op = "pclose")

(***************************************************************************)
(* The specification with the scheduling of asyncio: a task that can take  *)
(* a step takes it (every await of the duties is bounded by a timeout, a   *)
(* sleep or the handler's return).  The callers are under no obligation.   *)
(***************************************************************************)
LiveSpec ==
    /\ Spec
    /\ WF_vars(DutiesStart)
    /\ WF_vars(ReadLoop)
    /\ WF_vars(CommandLoop)
    /\ WF_vars(DispatchLoop)

DutiesExited ==
    /\ readPc \in {"idle", "done"}
    /\ cmdPc \in {"idle", "done"}
    /\ dispPc \in {"idle", "done"}

\* C6: once stop() has cleared self.running, the read loop, the command
\* loop and the dispatch loop each leave their loop, wherever they were
\* suspended, so that run() completes.
C6_DutiesExitAfterStop == (~running /\ stops > 0) ~> DutiesExited

\* C6 witness: a caller stopped a running bridge and the three duties have
\* left their loops by themselves (no task was cancelled).
C6_Witness ==
    /\ scenario = "calls"
    /\ runs > 0
    /\ stops > 0
    /\ readPc = "done" /\ cmdPc = "done" /\ dispPc = "done"

\* a write that failed on an open process while the bridge was running
IsTransportFault(e) == e.op = "write" /\ ~e.ok /\ e.open /\ e.running

\* the step is a failed write on an open process of a running bridge
FaultStep ==
    /\ Len(trace') = Len(trace) + 1
    /\ IsTransportFault(trace'[Len(trace')])

Stopped == ~running /\ process = "closed" /\ conn = "closed"

\* C8 as stated: the lifecycle only moves forward: a step that makes the
\* bridge Running starts where start_com has produced a process, and
\* never from Stopped.
C8_LifecycleOneWay ==
    [][(~running /\ running') => (process # "None" /\ ~Stopped)]_vars

\* C9: start_com() called while self.conn is None fails with the
\* RuntimeError and leaves conn, process and running as they were, for
\* COMBridge and for SDFComClient.
C9_StartComNeedsConnection ==
    [][/\ (lastCall'.op = "start_com" /\ conn = "None")
            => /\ lastCall'.result = "RuntimeError"
               /\ UNCHANGED <<conn, process, running>>
       /\ (lastCall'.op = "client.start_com" /\ client_conn = "None")
            => /\ lastCall'.result = "RuntimeError"
               /\ UNCHANGED <<client_conn, client_process>>]_vars

\* C9 witness: start_com() has just failed on a bridge that never
\* connected.
C9_Witness ==
    /\ lastCall = [op |-> "start_com", result |-> "RuntimeError"]
    /\ conn = "None"
    /\ process = "None"

\* the scenarios in which connect() is called by FeishuCOMBot.start()
StartIsCaller == scenario \in {"outbound", "inbound"}

\* C10: if connect() fails during FeishuCOMBot.start(), the error leaves
\* start() (it does not go on), and from then on no process has been
\* spawned, no duty has been started and self.running is false.
C10_FailedConnectStartsNothing ==
    /\ [][(StartIsCaller /\ botPc = "idle" /\ lastCall'.op = "connect"
              /\ lastCall'.result = "ConnectionError")
            => botPc' = "connect_failed"]_vars
    /\ [][botPc = "connect_failed" => botPc' = "connect_failed"]_vars
    /\ [](botPc = "connect_failed" =>
            /\ process = "None"
            /\ ~running
            /\ runs = 0
            /\ readPc = "idle" /\ cmdPc = "idle" /\ dispPc = "idle")

\* C10 witness: start() has failed in connect() and the caller has gone
\* on to call stop().
C10_Witness ==
    /\ botPc = "connect_failed"
    /\ conn = "None"
    /\ stops > 0

\* the patterns in the order in which parse_messages tries them
PatternOrder == <<"room_header", "chat", "emote", "private", "system">>

MatchesPattern(name, line) ==
    CASE name = "room_header" -> room_header(line).ok
      [] name = "chat" -> chat(line).ok
      [] name = "emote" -> emote(line).ok
      [] name = "private" -> private(line).ok
      [] name = "system" -> system(line)

Matching(line) ==
    {k \in DOMAIN PatternOrder : MatchesPattern(PatternOrder[k], line)}

\* the earliest pattern of the order that matches the line, "none" if none
FirstMatch(line) ==
    IF Matching(line) = {} THEN "none"
    ELSE PatternOrder[CHOOSE k \in Matching(line) :
                          \A j \in Matching(line) : k <= j]

\* the lines of a text, stripped
StrippedLines(text) ==
    [i \in 1..Len(SplitLines(text, <<>>)) |-> Strip(SplitLines(text, <<>>)[i])]

\* the lines of a text that yield an event, by the order of precedence
EventLines(text) ==
    SelectSeq(StrippedLines(text),
              LAMBDA l : l # <<>> /\ FirstMatch(l) \notin {"none", "room_header"})

IsParse == lastCall.op = "parse_messages"

\* C11: parse_messages yields one event for every non-empty line whose
\* earliest matching pattern, in the order room-header, chat, emote,
\* private, system, is an event pattern, of the kind of that pattern, in
\* the order of the lines; a line that matches the room-header pattern
\* and a line that matches no pattern yield no event.
C11_FirstMatchWins ==
    IsParse =>
        /\ Len(lastCall.result) = Len(EventLines(lastCall.text))
        /\ \A i \in DOMAIN lastCall.result :
              /\ lastCall.result[i].raw_line = EventLines(lastCall.text)[i]
              /\ lastCall.result[i].msg_type =
                    FirstMatch(EventLines(lastCall.text)[i])

\* C11 witness: a text has been parsed in which one line matches the
\* emote and the system pattern and another the room-header and the chat
\* pattern: the only event is the emote.
C11_Witness ==
    /\ IsParse
    /\ \E i, j \in DOMAIN StrippedLines(lastCall.text) :
          /\ {2, 3, 5} \cap Matching(StrippedLines(lastCall.text)[i]) = {3, 5}
          /\ {1, 2} \subseteq Matching(StrippedLines(lastCall.text)[j])
    /\ Len(lastCall.result) = 1
    /\ lastCall.result[1].msg_type = "emote"

\* the positions, in the text, of the lines that yield an event
EventPositions(text) ==
    SelectSeq([k \in DOMAIN StrippedLines(text) |-> k],
              LAMBDA k : /\ StrippedLines(text)[k] # <<>>
                         /\ FirstMatch(StrippedLines(text)[k])
                               \notin {"none", "room_header"})

\* the positions of the room-header lines above position k
HeadersAbove(text, k) ==
    {j \in 1..(k - 1) : room_header(StrippedLines(text)[j]).ok}

\* the room named by the nearest room-header line above position k, the
\* room on entry when there is none
RoomAbove(text, room, k) ==
    IF HeadersAbove(text, k) = {} THEN room
    ELSE room_header(StrippedLines(text)[
             CHOOSE j \in HeadersAbove(text, k) :
                 \A h \in HeadersAbove(text, k) : h <= j]).g1

\* C12: every event parse_messages produces carries the room named by
\* the nearest room-header line above its line in the text, and the room
\* that was current before the call when no header is above it; on
\* return the current room is the one of the last header of the text.
C12_RoomOfNearestHeaderAbove ==
    IsParse =>
        /\ Len(lastCall.result) = Len(EventPositions(lastCall.text))
        /\ \A i \in DOMAIN lastCall.result :
              lastCall.result[i].room =
                  RoomAbove(lastCall.text, lastCall.room,
                            EventPositions(lastCall.text)[i])
        /\ parser_room =
              RoomAbove(lastCall.text, lastCall.room,
                        Len(StrippedLines(lastCall.text)) + 1)

\* C12 witness: the text parsed has an event line and a room-header line
\* under it; the room before the call came from an earlier header and is
\* not the one the header names: the event carries the earlier room and
\* the current room is now the one of the header.
C12_Witness ==
    /\ IsParse
    /\ Len(lastCall.result) = 1
    /\ Len(StrippedLines(lastCall.text)) = 2
    /\ EventPositions(lastCall.text) = <<1>>
    /\ HeadersAbove(lastCall.text, 3) = {2}
    /\ lastCall.room = <<"r">>
    /\ lastCall.result[1].room = <<"r">>
    /\ parser_room = <<"b">>

\* C13 as stated: the window is cleared right after the insertion that
\* brings it to its capacity, so between two steps of the dispatch loop
\* it never holds as many fingerprints as its capacity.
C13_ClearedAtCapacity == Cardinality(seen_messages) < DedupCapacity

\* the step takes a message that is not a duplicate: its fingerprint is
\* inserted
InsertStep ==
    /\ Len(handled') = Len(handled) + 1
    /\ handled'[Len(handled')].slot # "dup"

\* C13 amended: the window is cleared by the insertion that makes it
\* exceed its capacity, the (capacity + 1)-th of its lifetime, and by no
\* other insertion; a message is dropped as a duplicate only when its
\* fingerprint was inserted earlier in the same lifetime, so after the
\* clear the fingerprint of the first event is new again.
C13_ClearedOnOverflow ==
    /\ [][InsertStep =>
            (seen_messages' = {}
                <=> Cardinality(seen_messages) = DedupCapacity)]_vars
    /\ [](\A j \in DOMAIN handled :
            handled[j].slot = "dup" =>
                \E i \in 1..(j - 1) :
                    /\ handled[i].fp = handled[j].fp
                    /\ handled[i].epoch = handled[j].epoch
                    /\ handled[i].slot # "dup")

\* C13 witness: in one run of the dispatch loop, capacity + 1 distinct
\* events were inserted in one lifetime of the window (the last of them
\* cleared it), and an event with the fingerprint of the first of them
\* was taken next, in the next lifetime, and reached its handler.
C13_Witness ==
    /\ runs = 1
    /\ \E k \in DOMAIN handled :
          /\ Invoked(handled[k])
          /\ \E first \in 1..(k - 1) :
                /\ handled[first].fp = handled[k].fp
                /\ handled[first].epoch + 1 = handled[k].epoch
                /\ Cardinality({handled[i].fp : i \in
                        {i \in first..(k - 1) :
                            /\ handled[i].slot # "dup"
                            /\ handled[i].epoch = handled[first].epoch}})
                      = DedupCapacity + 1

\* C14: wherever the dispatch loop is suspended (in a handler or waiting
\* for the next message) the window holds no more fingerprints than its
\* capacity, and a step leaves it unchanged, adds exactly one
\* fingerprint to it, or empties it.
C14_WindowBoundedAndClearedWhole ==
    /\ [](Cardinality(seen_messages) <= DedupCapacity)
    /\ [][\/ seen_messages' = seen_messages
          \/ /\ seen_messages \subseteq seen_messages'
             /\ Cardinality(seen_messages') = Cardinality(seen_messages) + 1
          \/ seen_messages' = {}]_vars

\* C14 witness: the window has been cleared once in this run, is full
\* again, and a handler is being invoked.
C14_Witness ==
    /\ runs = 1
    /\ epoch >= 2
    /\ dispPc = "handler"
    /\ Cardinality(seen_messages) = DedupCapacity

\* the step is the failure of the handler that was being awaited
RaiseStep ==
    /\ Len(handled') = Len(handled)
    /\ handled' # handled
    /\ handled'[Len(handled')].raised

\* the handler slot registered for the kind of an entry, "none" if none
SlotOf(e) ==
    IF e.kind \in DOMAIN handlers /\ handlers[e.kind] THEN e.kind ELSE "none"

\* C15: when the handler invoked for an event raises, the dispatch loop
\* goes back to the head of its loop (it waits for the next event while
\* the bridge is running), the read loop, the command loop and
\* self.running are untouched, and every event taken later that is not
\* a duplicate has the handler of its kind invoked.
C15_HandlerErrorAbsorbed ==
    /\ [][RaiseStep =>
            /\ dispPc' = (IF running THEN "get" ELSE "done")
            /\ UNCHANGED <<readPc, cmdPc, running, message_queue,
                           seen_messages>>]_vars
    /\ [](\A i, j \in DOMAIN handled :
            (i < j /\ handled[i].raised /\ handled[j].slot # "dup")
                => handled[j].slot = SlotOf(handled[j]))

\* C15 witness: a handler raised, and the handler of an event taken
\* later by the same dispatch loop (the bridge ran once) was invoked.
C15_Witness ==
    /\ runs = 1
    /\ \E i, j \in DOMAIN handled :
          /\ i < j
          /\ handled[i].raised
          /\ Invoked(handled[j])

\* the step takes a message for which no handler is called
SilentStep ==
    /\ Len(handled') = Len(handled) + 1
    /\ handled'[Len(handled')].slot = "none"

\* C16: an event that is not a duplicate invokes the handler registered
\* for its own kind and no other; when none is registered for its kind,
\* or the kind is emote, no handler is called and the loop goes on to the
\* next event.
C16_OwnKindHandlerOnly ==
    /\ [](\A i \in DOMAIN handled :
            handled[i].slot # "dup" =>
                /\ handled[i].slot = SlotOf(handled[i])
                /\ handled[i].kind = "emote" => handled[i].slot = "none")
    /\ [][SilentStep =>
            /\ dispPc' = (IF running THEN "get" ELSE "done")
            /\ message_queue' = Tail(message_queue)]_vars

\* C16 witness: with the chat handler registered, an emote was consumed
\* with no handler call and a chat event taken after it reached the chat
\* handler.
C16_Witness ==
    /\ handlers["chat"]
    /\ \E i, j \in DOMAIN handled :
          /\ i < j
          /\ handled[i].kind = "emote" /\ handled[i].slot = "none"
          /\ handled[j].kind = "chat" /\ handled[j].slot = "chat"

IsHandle == lastCall.op = "handle_feishu_message"

\* the commands the input sequencer is to receive for a trimmed text t,
\* by the order of tests of the contract; with promptEmpty, a "t:" or
\* "g:" that nothing follows is answered with a prompt instead
Expected(t, promptEmpty, hasProcess) ==
    LET rest == Strip(SubSeq(t, 3, Len(t)))
    IN  IF t = <<>> THEN <<>>
        ELSE IF Len(t) >= 2 /\ SubSeq(t, 1, 2) = <<"t", ":">>
        THEN IF promptEmpty /\ rest = <<>> THEN <<>>
             ELSE << Say(<<"[", "E", "N", "]", " ">> \o rest) >>
        ELSE IF Len(t) >= 2 /\ SubSeq(t, 1, 2) = <<"g", ":">>
        THEN IF promptEmpty /\ rest = <<>> THEN <<>>
             ELSE << Goto(rest) >>
        ELSE IF t \in {<<"w">>, <<"l">>, <<"r">>, <<"h">>, <<"I">>}
        THEN << Raw(t) >>
        ELSE IF t = <<"q">>
        THEN IF hasProcess THEN << Raw(<<"q">>) >> ELSE <<>>
        ELSE IF t \in {<<"h", "e", "l", "p">>, help_zh,
                       <<"s", "t", "a", "t", "u", "s">>, status_zh}
        THEN <<>>
        ELSE << Say(t) >>

\* what the call answers for a trimmed text t that is empty, a help word
\* or a status word
Answered(t, reply, room) ==
    /\ t = <<>> => reply = <<"enter a command or a message">>
    /\ t \in {<<"h", "e", "l", "p">>, help_zh} => reply = <<"help text">>
    /\ t \in {<<"s", "t", "a", "t", "u", "s">>, status_zh}
           => reply = <<"current room: ">> \o room
                      \o <<"\n", "user name: ">> \o username

HandleStep(promptEmpty) ==
    lastCall'.op = "handle_feishu_message" =>
        LET t == Strip(lastCall'.text)
        IN  /\ submitted' = submitted \o Expected(t, promptEmpty,
                                                 process # "None")
            /\ Len(submitted') <= Len(submitted) + 1
            /\ t = <<"q">> => ~running'
            /\ t # <<"q">> => /\ running' = running
                              /\ lastCall'.result = "ok"
                              /\ Answered(t, lastCall'.reply, current_room)

\* C17 as stated: handle_feishu_message trims its input and takes exactly
\* one action by the order of tests empty (prompt), prefix "t:" (Say of
\* the translation is queued), prefix "g:" (Goto is queued), exact
\* w/l/r/h/I (Raw is queued), exact q (stop), help word (help text),
\* status word (room and user name), otherwise Say of the text is queued;
\* a call queues at most one command.
C17_OneActionByOrder == [][HandleStep(FALSE)]_vars

\* C17 amended: the same, except that a "t:" or a "g:" followed by
\* nothing but blanks queues no command: the call answers with a prompt
\* for the missing text.
C17_OneActionByOrderOrPrompt ==
    [][ /\ HandleStep(TRUE)
        /\ lastCall'.op = "handle_feishu_message"
           => LET t == Strip(lastCall'.text)
              IN  /\ t \in {<<"t", ":">>}
                     => lastCall'.reply = <<"enter the Chinese text after t:">>
                  /\ t \in {<<"g", ":">>}
                     => lastCall'.reply = <<"enter the room name after g:">>
      ]_vars

\* C17 witness: the text " t: x " was handled and Say of the translation
\* of "x" is the command it queued.
C17_Witness ==
    /\ IsHandle
    /\ lastCall.text = <<" ", "t", ":", " ", "x", " ">>
    /\ submitted # <<>>
    /\ submitted[Len(submitted)] = Say(<<"[", "E", "N", "]", " ", "x">>)

\* the trimmed texts that are no session interaction: the empty text, the
\* help words and the status words
Inert(t) ==
    t \in {<<>>, <<"h", "e", "l", "p">>, help_zh,
           <<"s", "t", "a", "t", "u", "s">>, status_zh}

\* C18: handling an empty or blank text, a help word or a status word
\* leaves the command queue, the message queue, the running flag, the
\* current room and the process and connection handles as they were.
C18_InertTextsChangeNothing ==
    [][(lastCall'.op = "handle_feishu_message"
            /\ Inert(Strip(lastCall'.text)))
        => UNCHANGED <<command_queue, message_queue, running, current_room,
                       process, conn, submitted, trace>>]_vars

\* C18 witness: a status word was handled while the bridge was running
\* with a command waiting on the queue.
C18_Witness ==
    /\ IsHandle
    /\ lastCall.text = status_zh
    /\ running
    /\ process = "open"
    /\ command_queue # <<>>

\* C19: whatever the text and whatever the state of the session (not
\* connected, running, stopped already, a close() that fails),
\* handle_feishu_message returns a status string: no exception leaves it.
C19_AlwaysReturnsAString ==
    IsHandle => (lastCall.result = "ok" /\ lastCall.reply # <<>>)

\* neither the read loop nor the command loop is in the middle of
\* anything and no command is waiting
BothDutiesIdle ==
    /\ readPc \in {"read", "idle", "done"}
    /\ ~buffer
    /\ cmdPc \in {"get", "idle", "done"}
    /\ command_queue = <<>>
    /\ message_queue = <<>>

\* C20: the session has one current room: once both duties are idle, the
\* room that the status command reports is the room that the parser
\* stamps on the events it extracts next (so the room of an executed
\* Goto is stamped on the events, and the room of a header the read
\* loop processed is reported by status).
C20_OneCurrentRoom ==
    (IsHandle /\ Branch(Strip(lastCall.text)) = "status" /\ BothDutiesIdle)
        => lastCall.reply = <<"current room: ">> \o parser_room
                            \o <<"\n", "user name: ">> \o username

\* the command loop is between the first write of a Goto and the
\* assignment of self.current_room that ends _goto_room
GotoInProgress ==
    /\ cmdPc \in {"sleep_1", "sleep_2"}
    /\ cmd # NoCmd
    /\ cmd.cmd.type = "goto"

\* C21: a Goto is executed atomically with respect to the other duties:
\* from its first write to the update of the bridge's current room, no
\* step of the read loop (a room header it processes included) and no step
\* of the dispatch loop occurs.  Steps of callers that stop or start the
\* bridge are not steps of the duties.
C21_GotoIsAtomic ==
    [][(GotoInProgress /\ stops' = stops /\ runs' = runs)
        => UNCHANGED <<readVars, parserVars, message_queue, dispVars>>]_vars

\* the stdin writes attempted for the command with order number id, in
\* order, each with whether it went through
WritesOf(log, id) ==
    LET w == SelectSeq(log, LAMBDA e : e.op = "write" /\ e.id = id)
    IN  [i \in 1..Len(w) |-> [data |-> w[i].data, ok |-> w[i].ok]]

\* the modal keystroke sequence of a command
Modal(c) ==
    IF c.type = "say"
    THEN << [data |-> <<" ">>, ok |-> TRUE],
            [data |-> c.content \o <<"\n">>, ok |-> TRUE] >>
    ELSE IF c.type = "goto"
    THEN << [data |-> <<"g", "\n">>, ok |-> TRUE],
            [data |-> c.room \o <<"\n">>, ok |-> TRUE] >>
    ELSE << [data |-> c.command \o <<"\n">>, ok |-> TRUE] >>

\* the sender of the command in hand returns: its last settle delay ends
\* (no write fails in this step and no caller cancels the loop)
SenderReturns ==
    /\ cmd # NoCmd
    /\ cmd' = NoCmd
    /\ trace' = trace
    /\ stops' = stops

\* a write that goes through is added to the history
WriteDone ==
    /\ Len(trace') = Len(trace) + 1
    /\ trace'[Len(trace')].op = "write"
    /\ trace'[Len(trace')].ok

\* C22: a command that is executed (its sender returns) has produced
\* exactly its modal keystroke sequence, in order: Say(t) the key " " and
\* then t and a newline, Goto(r) "g" and a newline and then r and a
\* newline, Raw(c) c and a newline only; and every write is flushed
\* before the settle delay that follows it starts.
C22_ModalKeystrokes ==
    /\ [][SenderReturns => WritesOf(trace, cmd.id) = Modal(cmd.cmd)]_vars
    /\ [][WriteDone => (cmdPc' \in {"sleep_1", "sleep_2"}
                        /\ cmdPc \notin {"sleep_2"})]_vars

\* C22 witness: a Say, a Goto or a Raw of the platform has been executed
\* in full: its keystrokes are in the history and no command is in hand.
C22_Witness ==
    /\ cmd = NoCmd
    /\ \E id \in 1..Len(submitted) :
          /\ submitted[id].type = "goto"
          /\ WritesOf(trace, id) = Modal(submitted[id])
    /\ current_room = <<"r">>

\* C23: a command whose keystrokes fail part-way is never sent again: a
\* command is taken from the queue once only (nothing on the queue was
\* written before, and the queue grows only by a put of a caller), no
\* keystroke of it is written twice, and after a write of it has failed
\* nothing more of it is written.
C23_FailedCommandNotResent ==
    /\ [](/\ \A i \in DOMAIN command_queue : \A p \in DOMAIN Writes :
                command_queue[i].id # Writes[p].id
          /\ \A p, q \in DOMAIN Writes :
                (p < q /\ Writes[p].id = Writes[q].id)
                    => (Writes[p].ok /\ Writes[p].data # Writes[q].data))
    /\ [][Len(command_queue') > Len(command_queue)
            => Len(submitted') = Len(submitted) + 1]_vars

\* C23 witness: the second write of a command failed on an open process
\* after its first write went through, and the loop has gone on to write
\* the next command.
C23_Witness ==
    \E p, q, n \in DOMAIN Writes :
        /\ p < q /\ q < n
        /\ Writes[p].id = Writes[q].id
        /\ Writes[p].ok
        /\ ~Writes[q].ok /\ Writes[q].open
        /\ Writes[n].id > Writes[q].id
        /\ Writes[n].ok

\* the read of the read loop raises in this step
ReadRaises ==
    /\ readPc = "read"
    /\ readPc' # readPc
    /\ \/ faults' = faults + 1
       \/ readPc' = "sleep"

\* a write of the command loop raises in this step
WriteRaises ==
    /\ Len(trace') = Len(trace) + 1
    /\ trace'[Len(trace')].op = "write"
    /\ ~trace'[Len(trace')].ok

\* the handler called by the dispatch loop raises in this step
HandlerRaises ==
    /\ dispPc = "handler"
    /\ faults' = faults + 1

\* C24: an error raised in an iteration of the read loop, of the command
\* loop or of the dispatch loop is caught inside that duty: the duty is
\* not ended by it (it goes to its next iteration while the bridge is
\* running, the read loop after its sleep), the other two duties are not
\* touched and the running flag stays as it was.
C24_DutyErrorsStayLocal ==
    [][ /\ ReadRaises
           => /\ readPc' = "sleep"
              /\ UNCHANGED <<cmdVars, dispVars, running>>
        /\ (readPc = "sleep" /\ readPc' # readPc /\ runs' = runs
               /\ stops' = stops)
           => readPc' = (IF ~running THEN "done"
                         ELSE IF process = "None" THEN "sleep" ELSE "read")
        /\ WriteRaises
           => /\ cmdPc' = (IF running THEN "get" ELSE "done")
              /\ UNCHANGED <<readVars, dispVars, running>>
        /\ HandlerRaises
           => /\ dispPc' = (IF running THEN "get" ELSE "done")
              /\ UNCHANGED <<readVars, cmdVars, running>>
      ]_vars

\* C24 witness: the read of a running bridge has raised on an open
\* process (the read loop is in its sleep) and the command loop and the
\* dispatch loop are waiting for their next item.
C24_Witness ==
    /\ scenario = "outbound"
    /\ faults > 0
    /\ readPc = "sleep"
    /\ running
    /\ process = "open"
    /\ cmdPc = "get"
    /\ dispPc = "get"

\* C25: once stop() has closed the process, no write to its stdin is
\* attempted: every write that comes after a close() of the process in
\* the history was made on an open process (one that start_com created
\* afterwards), so no command that was waiting when stop() ran, the "q"
\* of stop() included, is executed against the closed process.
C25_NoWriteAfterClose ==
    \A p, q \in DOMAIN trace :
        (p < q /\ trace[p].op = "pclose" /\ trace[q].op = "write")
            => trace[q].open

(***************************************************************************)
(* The bot driven from the chat platform with the scheduling of asyncio:   *)
(* the duties take the steps they can take and a start() that has          *)
(* connected runs to its end.  The platform is under no obligation.        *)
(***************************************************************************)
BotLiveSpec ==
    /\ BotSpec
    /\ WF_vars(DutiesStart)
    /\ WF_vars(ReadEOF \/ ReadTimeout \/ ReadError \/ ReadWake)
    /\ WF_vars(CommandLoop)
    /\ WF_vars(DispTimeout)
    /\ WF_vars(BotStartCom)
    /\ WF_vars(BotStartRun)

\* the call that just returned acknowledged a say, a translated say, a
\* goto or a raw command
Acknowledged ==
    /\ IsHandle
    /\ lastCall.result = "ok"
    /\ Branch(Strip(lastCall.text)) \in {"translate", "goto", "raw", "say"}

\* every command that the platform has had acknowledged is written to
\* the session in full
AllWritten ==
    \A id \in DOMAIN submitted :
        submitted[id] # Raw(<<"q">>)
            => WritesOf(trace, id) = Modal(submitted[id])

\* the rooms of the Goto commands acknowledged so far, in order
GotoRooms ==
    LET g == SelectSeq(submitted, LAMBDA c : c.type = "goto")
    IN  [i \in 1..Len(g) |-> g[i].room]

\* what status answers when the room is the one of the last Goto
\* acknowledged
StatusReportsLastGoto ==
    GotoRooms # <<>>
        => Reply(<<"s", "t", "a", "t", "u", "s">>)
               = <<"current room: ">> \o GotoRooms[Len(GotoRooms)]
                 \o <<"\n", "user name: ">> \o username

\* C26: a command that handle_feishu_message has acknowledged (say,
\* translated say, goto, raw) is eventually written to the session in
\* full, whatever the bridge was doing at the call, and after the
\* acknowledgement of "g:room" status comes to report that room.
C26_AcknowledgedIsWritten ==
    Acknowledged ~> (AllWritten /\ StatusReportsLastGoto)

\* C27: the fingerprint of the dedup window is (username, host, content)
\* alone: within one lifetime of the window, an event with the
\* fingerprint of an event consumed earlier is dropped without a handler
\* call also when its kind or its room differs from the earlier one's,
\* and also when the earlier one had no handler to go to.
C27_FingerprintIgnoresKindAndRoom ==
    \A i, j \in DOMAIN handled :
        ( /\ i < j
          /\ handled[i].fp = handled[j].fp
          /\ handled[i].epoch = handled[j].epoch
          /\ \/ handled[i].kind # handled[j].kind
             \/ handled[i].room # handled[j].room
             \/ handled[i].slot = "none" )
            => (handled[j].slot = "dup" /\ ~handled[j].raised)

\* C27 witness: a chat event that had no handler was consumed and a
\* private event of the same user, host and content, taken later in the
\* same lifetime, was dropped.
C27_Witness ==
    \E i, j \in DOMAIN handled :
        /\ i < j
        /\ handled[i].kind = "chat" /\ handled[i].slot = "none"
        /\ handled[j].kind = "private" /\ handled[j].slot = "dup"
        /\ handled[i].fp = handled[j].fp
        /\ handled[i].epoch = handled[j].epoch

\* the step inserts the fingerprint that makes the window overflow
OverflowStep ==
    /\ InsertStep
    /\ Cardinality(seen_messages) = DedupCapacity

\* C28: the event whose insertion makes the window overflow still goes
\* to the handler of its kind, and the clear it triggers discards its own
\* fingerprint with the others: the next event with that fingerprint
\* (the very next event, or a later one with no such event in between)
\* is not a duplicate and goes to the handler again.
C28_OverflowEventNotRemembered ==
    /\ [][OverflowStep =>
            /\ seen_messages' = {}
            /\ handled'[Len(handled')].slot = SlotOf(handled'[Len(handled')])
         ]_vars
    /\ [](\A i, j \in DOMAIN handled :
            ( /\ i < j
              /\ handled[i].fp = handled[j].fp
              /\ handled[j].epoch > handled[i].epoch
              /\ \A k \in (i + 1)..(j - 1) : handled[k].fp # handled[i].fp )
                => handled[j].slot = SlotOf(handled[j]))

\* C28 witness: in one run of the dispatch loop an event overflowed the
\* window and reached its handler, and the next event with its
\* fingerprint, taken in the lifetime that this clear started, reached
\* the handler too.
C28_Witness ==
    /\ runs = 1
    /\ \E i, j \in DOMAIN handled :
          /\ i < j
          /\ handled[i].fp = handled[j].fp
          /\ handled[j].epoch = handled[i].epoch + 1
          /\ Invoked(handled[i])
          /\ Invoked(handled[j])
          /\ \A k \in (i + 1)..(j - 1) :
                /\ handled[k].fp # handled[i].fp
                /\ handled[k].epoch = handled[j].epoch
          /\ \E f \in 1..(i - 1) :
                /\ handled[f].epoch = handled[i].epoch
                /\ handled[f].slot # "dup"
                /\ handled[f].fp # handled[i].fp

\* C29: through the handlers of FeishuCOMBridge, a chat event of the
\* bridge's own user is never handed to the platform callback; with a
\* callback registered, every other chat event and every private event
\* that reaches its handler is handed to it exactly once, with the
\* sender, the content and the room of the event, a private event with
\* the room "private"; an event that reaches no handler is not forwarded.
C29_ForwardedOnceExceptOwnChat ==
    \A i \in DOMAIN handled :
        LET e == handled[i]
        IN  /\ (e.kind = "chat" /\ e.fp[1] = username) => e.sent = <<>>
            /\ ~Invoked(e) => e.sent = <<>>
            /\ ( /\ handlers["feishu"]
                 /\ \/ e.slot = "chat" /\ e.fp[1] # username
                    \/ e.slot = "private" )
               => /\ Len(e.sent) = 1
                  /\ e.sent[1].from = e.fp[1] \o <<"@">> \o e.fp[2]
                  /\ e.sent[1].content = e.fp[3]
                  /\ e.sent[1].room =
                        (IF e.slot = "private"
                         THEN <<"p", "r", "i", "v", "a", "t", "e">>
                         ELSE e.room)

\* C29 witness: with the callback registered, a chat event of the own
\* user reached the chat handler and was not forwarded, and a chat event
\* of another user was forwarded.
C29_Witness ==
    /\ handlers["feishu"]
    /\ \E i, j \in DOMAIN handled :
          /\ handled[i].slot = "chat"
          /\ handled[i].fp[1] = username
          /\ handled[i].sent = <<>>
          /\ handled[j].slot = "chat"
          /\ handled[j].fp[1] # username
          /\ Len(handled[j].sent) = 1

\* C30: the two parsers of platform texts agree on the session: for every
\* text, handle_feishu_input queues the commands that
\* handle_feishu_message queues for it (none when that one queues none)
\* and calls stop() exactly when that one does.
C30_ParsersAgree ==
    [][lastCall'.op = "handle_feishu_input" =>
          LET t == Strip(lastCall'.text)
          IN  /\ submitted' = submitted \o Expected(t, TRUE, process # "None")
              /\ (stops' = stops + 1) <=> (Branch(t) = "quit")
      ]_vars

====
